---- MODULE Spec2Model ----
(***************************************************************************)
(* impass: the `fatal!` block macro and the `#[fatal_fn]` attribute macro   *)
(* (src/src/lib.rs), together with the run-time behaviour of the           *)
(* expression `fatal!` generates.                                          *)
(*                                                                         *)
(* One behaviour of the model is one invocation site: the macro input is   *)
(* expanded (fatal_fn first, for the function form, then fatal), and the   *)
(* generated expression is evaluated statement by statement.               *)
(***************************************************************************)
EXTENDS Integers, Sequences, FiniteSets, TLC

VARIABLES form, args, item, out_fn, tokens, directive, generated_code,
          macro_panicked, pc, idx, effects, scope_result, value, diagnostic

vars == <<form, args, item, out_fn, tokens, directive, generated_code,
          macro_panicked, pc, idx, effects, scope_result, value, diagnostic>>

(* ------------------------------ bounds -------------------------------- *)
MaxStmts == 2
MaxAttrs == 2
MaxArgs == 2

SeqsUpTo(S, n) == UNION {[1..k -> S] : k \in 0..n}

(* ------------------------- Option and Result -------------------------- *)
None == [tag |-> "None"]
Some(x) == [tag |-> "Some", val |-> x]
Ok(v) == [tag |-> "Ok", v |-> v]
Err(e) == [tag |-> "Err", e |-> e]

(* ------------------------------ literals ------------------------------ *)
(* A literal token: its shape (string or integer), whether a string is     *)
(* written raw (r"..."), and the text it denotes.                         *)
Lit(shape, raw, text) == [shape |-> shape, raw |-> raw, text |-> text]

LitA == Lit("str", FALSE, "A")
LitRawB == Lit("str", TRUE, "B")
Lit42 == Lit("int", FALSE, "42")

(* syn::LitStr::value: the text the literal denotes *)
LitStr_value(lit) == lit.text

(* quote!'s interpolation of a String: an ordinary (never raw) literal *)
quote_String(s) == Lit("str", FALSE, s)

(* ------------------------- run-time statements ------------------------ *)
(* `try`: a statement `let _ = op()?;` whose operation yields r.           *)
(* `ret`: `return r;` or the block's trailing expression r.                *)
Values == {41, 42}
Errors == {"OperationFailed", "OtherFailure"}

TryStmts == {[k |-> "try", r |-> Ok(7)]}
              \cup {[k |-> "try", r |-> Err(e)] : e \in Errors}
RetStmts == {[k |-> "ret", r |-> Ok(v)] : v \in Values}
              \cup {[k |-> "ret", r |-> Err("OperationFailed")]}
Stmts == TryStmts \cup RetStmts

(* statement sequences that type-check as a closure returning a Result:    *)
(* the last statement yields the Result.                                   *)
Bodies == {b \in SeqsUpTo(Stmts, MaxStmts) : Len(b) >= 1 /\ b[Len(b)] \in RetStmts}

(* thiserror's Display of the error values *)
Display(e) ==
  IF e = "OperationFailed" THEN "This operation failed" ELSE "Other failure"

(* ------------------------- the bare-form input ------------------------ *)
(* an inner attribute #![path(arg)] *)
Attr(path, arg) == [path |-> path, arg |-> arg]
Attrs == {Attr("reason", LitA), Attr("reason", LitRawB), Attr("reason", Lit42),
          Attr("allow", LitA)}

(* the token stream given to fatal!: leading inner attributes, then the     *)
(* statements; ok says whether the statements parse as a block body.       *)
Tokens(attrs, body, ok) == [attrs |-> attrs, body |-> body, ok |-> ok]
NoTokens == Tokens(<<>>, <<>>, TRUE)

(* ------------------------ the function-form input --------------------- *)
(* syn::NestedMeta: Meta(NameValue(path = lit)) or a bare literal *)
NameValue(path, lit) == [kind |-> "NameValue", path |-> path, lit |-> lit]
NestedLit(lit) == [kind |-> "Lit", path |-> "", lit |-> lit]
Args == {NameValue("reason", LitA), NameValue("reason", LitRawB),
         NameValue("reason", Lit42), NameValue("note", LitA), NestedLit(LitA)}

ItemFn(vis, attrs, ident, inputs, output, block) ==
  [vis |-> vis, attrs |-> attrs, ident |-> ident, inputs |-> inputs,
   output |-> output, block |-> block]
NoFn == ItemFn("", <<>>, "", <<>>, "", <<>>)
Signatures ==
  {ItemFn("", <<"test", "should_panic">>, "test_fatal_panic", <<>>, "()", <<>>),
   ItemFn("pub", <<>>, "example_function", <<"value: i32">>, "i32", <<>>)}

(* --------------------------- FatalBlock::parse ------------------------ *)
(* syn::Attribute::parse_args::<LitStr>: the argument is one string literal *)
parse_args_LitStr(attr) ==
  IF attr.arg.shape = "str" THEN Ok(attr.arg) ELSE Err("expected string literal")

(* variant: the first reason annotation that parses wins *)
RECURSIVE scan_attribs_first(_, _)
scan_attribs_first(attribs, reason_message) ==
  IF attribs = <<>> THEN reason_message
  ELSE LET attr == Head(attribs)
           parsed == parse_args_LitStr(attr)
       IN scan_attribs_first(Tail(attribs),
                             IF attr.path = "reason" /\ parsed.tag = "Ok"
                                /\ reason_message.tag = "None"
                             THEN Some(parsed.v) ELSE reason_message)

(* variant: the annotation's name is not looked at *)
RECURSIVE scan_attribs_any_name(_, _)
scan_attribs_any_name(attribs, reason_message) ==
  IF attribs = <<>> THEN reason_message
  ELSE LET parsed == parse_args_LitStr(Head(attribs))
       IN scan_attribs_any_name(Tail(attribs),
                                IF parsed.tag = "Ok"
                                THEN Some(parsed.v) ELSE reason_message)

(* the loop over the inner attributes: reason_message after the loop *)
RECURSIVE scan_attribs(_, _)
scan_attribs(attribs, reason_message) ==
  IF attribs = <<>> THEN reason_message
  ELSE LET attr == Head(attribs)
           parsed == parse_args_LitStr(attr)
       IN scan_attribs(Tail(attribs),
                       IF attr.path = "reason" /\ parsed.tag = "Ok"
                       THEN Some(parsed.v) ELSE reason_message)

FatalBlock(stmts, reason_message) ==
  [stmts |-> stmts, reason_message |-> reason_message]
NoDirective == [stmts |-> <<>>, reason_message |-> [tag |-> "NoDirective"]]

(* variant: a reason argument that is no string literal is a parse error *)
parse_strict(input) ==
  IF input.ok /\ \A i \in DOMAIN input.attrs :
                   input.attrs[i].path = "reason" =>
                     parse_args_LitStr(input.attrs[i]).tag = "Ok"
  THEN Ok([stmts |-> input.body,
           reason_message |-> scan_attribs(input.attrs, None)])
  ELSE Err("syntax error")

parse(input) ==
  IF input.ok
  THEN Ok(FatalBlock(input.body, scan_attribs(input.attrs, None)))
  ELSE Err("syntax error")

(* ------------------------------- fatal -------------------------------- *)
GenericLit == Lit("str", FALSE, "An unrecoverable error occurred")

NoExpr == [tag |-> "NoExpr"]
compile_error(msg) == [tag |-> "compile_error", msg |-> msg]

(* variant: the reason is parsed but the generic text is always used *)
generate_generic(stmts, reason_message) ==
  [tag |-> "Expr", stmts |-> stmts, context |-> GenericLit]

(* the generated expression:                                               *)
(*   (|| -> Result<_, anyhow::Error> { stmts })()                          *)
(*       .unwrap_or_else(|e| panic!("\n{:?}", e.context(context)))         *)
generate(stmts, reason_message) ==
  [tag |-> "Expr", stmts |-> stmts,
   context |-> IF reason_message.tag = "Some" THEN reason_message.val
               ELSE GenericLit]

(* parse_macro_input! turns a parse error into compile_error! tokens *)
fatal(input) ==
  LET parsed == parse(input)
  IN IF parsed.tag = "Err" THEN compile_error(parsed.e)
     ELSE generate(parsed.v.stmts, parsed.v.reason_message)

(* ------------------------------ fatal_fn ------------------------------ *)
(* args.iter().find_map(..): the first reason = "<string literal>" pair *)
RECURSIVE find_map_reason(_)
find_map_reason(as) ==
  IF as = <<>> THEN None
  ELSE LET arg == Head(as)
       IN IF arg.kind = "NameValue" /\ arg.path = "reason" /\ arg.lit.shape = "str"
          THEN Some(LitStr_value(arg.lit))
          ELSE find_map_reason(Tail(as))

(* variant: the extracted reason is not passed on to fatal! *)
new_body_no_reason(reason_message, original_body) ==
  [k |-> "macro", path |-> "impass::fatal", delim |-> "brace",
   tokens |-> Tokens(<<>>, original_body, TRUE)]

(* the statement `impass::fatal! { [#![reason(r)]] original_body }` *)
new_body(reason_message, original_body) ==
  [k |-> "macro", path |-> "impass::fatal", delim |-> "brace",
   tokens |-> Tokens(IF reason_message.tag = "Some"
                     THEN <<Attr("reason", quote_String(reason_message.val))>>
                     ELSE <<>>,
                     original_body, TRUE)]

(* parse2(quote! { { new_body } }): a block holding one macro statement *)
parse2(body) ==
  IF body.k = "macro" /\ body.delim = "brace" THEN Ok(<<body>>)
  ELSE Err("expected block")

(* variant: the function is rebuilt from its name and body alone *)
fatal_fn_rebuilt(as, input) ==
  IF ~input.ok THEN [tag |-> "compile_error", fn |-> NoFn, panicked |-> FALSE]
  ELSE [tag |-> "fn",
        fn |-> ItemFn("", <<>>, input.fn.ident, <<>>, "",
                      <<new_body(find_map_reason(as), input.fn.block)>>),
        panicked |-> FALSE]

(* the function fatal_fn returns, or the compile error of an input that     *)
(* is no function; panicked: whether the .expect on parse2 fired.          *)
fatal_fn(as, input) ==
  IF ~input.ok THEN [tag |-> "compile_error", fn |-> NoFn, panicked |-> FALSE]
  ELSE LET input_fn == input.fn
           block == parse2(new_body(find_map_reason(as), input_fn.block))
       IN IF block.tag = "Err"
          THEN [tag |-> "panic", fn |-> NoFn, panicked |-> TRUE]
          ELSE [tag |-> "fn", fn |-> [input_fn EXCEPT !.block = block.v],
                panicked |-> FALSE]

(* ---------------- run time of the generated expression ---------------- *)
(* anyhow::Error made from e by `?` (From): the chain of rendered messages, *)
(* outermost first, and the error at its root.                             *)
anyhow_from(e) == [chain |-> <<Display(e)>>, root |-> e]

(* anyhow::Error::context *)
context(err, msg) == [chain |-> <<msg>> \o err.chain, root |-> err.root]

(* anyhow's {:?}: the outermost message, then the causes *)
Debug(err) ==
  IF Len(err.chain) = 1 THEN err.chain
  ELSE <<Head(err.chain), "\n\nCaused by:\n    ">> \o Tail(err.chain)

(* panic!("\n{:?}", err) *)
panic_message(err) == <<"\n">> \o Debug(err)

(* the closure's result on a statement sequence (big-step) *)
RECURSIVE closure(_)
closure(stmts) ==
  LET s == Head(stmts)
  IN IF s.r.tag = "Err" THEN Err(anyhow_from(s.r.e))
     ELSE IF s.k = "ret" THEN s.r
     ELSE closure(Tail(stmts))

(* variant: unwrap_err, the success arm panics *)
unwrap_err(result, context_lit) ==
  IF result.tag = "Ok"
  THEN [tag |-> "panic", v |-> 0, msg |-> <<"\n", LitStr_value(context_lit)>>]
  ELSE [tag |-> "value", v |-> 0, msg |-> <<>>]

(* variant: unwrap_or_default, a failure yields the default value *)
unwrap_or_default(result, context_lit) ==
  IF result.tag = "Ok" THEN [tag |-> "value", v |-> result.v, msg |-> <<>>]
  ELSE [tag |-> "value", v |-> 0, msg |-> <<>>]

(* Result::unwrap_or_else(|e| panic!(..)) of the generated expression *)
unwrap_or_else(result, context_lit) ==
  IF result.tag = "Ok" THEN [tag |-> "value", v |-> result.v, msg |-> <<>>]
  ELSE [tag |-> "panic", v |-> 0,
        msg |-> panic_message(context(result.e, LitStr_value(context_lit)))]

(* -------------------------------- Init -------------------------------- *)
Pending == [tag |-> "Pending"]

InitRun ==
  /\ directive = NoDirective
  /\ generated_code = NoExpr
  /\ macro_panicked = FALSE
  /\ idx = 0
  /\ effects = <<>>
  /\ scope_result = Pending
  /\ value = None
  /\ diagnostic = <<>>

InitBare ==
  /\ form = "bare"
  /\ tokens \in {Tokens(a, b, ok) : a \in SeqsUpTo(Attrs, MaxAttrs),
                                    b \in Bodies, ok \in BOOLEAN}
  /\ args = <<>>
  /\ item = [ok |-> FALSE, fn |-> NoFn]
  /\ out_fn = NoFn
  /\ pc = "macro"

InitFn ==
  /\ form = "fn"
  /\ args \in SeqsUpTo(Args, MaxArgs)
  /\ item \in {[ok |-> ok, fn |-> [sig EXCEPT !.block = b]] :
                 ok \in BOOLEAN, sig \in Signatures, b \in Bodies}
  /\ tokens = NoTokens
  /\ out_fn = NoFn
  /\ pc = "attr"

Init == InitRun /\ (InitBare \/ InitFn)

(* ------------------------------- actions ------------------------------ *)
(* the compiler expands #[fatal_fn(args)] on the function *)
ExpandFatalFn ==
  /\ pc = "attr"
  /\ LET out == fatal_fn(args, item)
     IN /\ macro_panicked' = out.panicked
        /\ out_fn' = out.fn
        /\ tokens' = IF out.tag = "fn" THEN out.fn.block[1].tokens ELSE tokens
        /\ pc' = IF out.tag = "fn" THEN "macro" ELSE "compile_error"
  /\ UNCHANGED <<form, args, item, directive, generated_code, idx, effects,
                 scope_result, value, diagnostic>>

(* the compiler expands fatal! { tokens } *)
ExpandFatal ==
  /\ pc = "macro"
  /\ LET parsed == parse(tokens)
     IN /\ directive' = IF parsed.tag = "Ok" THEN parsed.v ELSE NoDirective
        /\ generated_code' = fatal(tokens)
        /\ pc' = IF parsed.tag = "Ok" THEN "compiled" ELSE "compile_error"
  /\ UNCHANGED <<form, args, item, out_fn, tokens, macro_panicked, idx, effects,
                 scope_result, value, diagnostic>>

(* control reaches the generated expression: the closure is called *)
Call ==
  /\ pc = "compiled"
  /\ pc' = "scope"
  /\ idx' = 1
  /\ UNCHANGED <<form, args, item, out_fn, tokens, directive, generated_code,
                 macro_panicked, effects, scope_result, value, diagnostic>>

(* `let _ = op()?;` whose operation succeeds: go on to the next statement *)
StepTryOk ==
  /\ pc = "scope"
  /\ LET s == generated_code.stmts[idx]
     IN s.k = "try" /\ s.r.tag = "Ok"
  /\ effects' = Append(effects, idx)
  /\ idx' = idx + 1
  /\ UNCHANGED <<form, args, item, out_fn, tokens, directive, generated_code,
                 macro_panicked, pc, scope_result, value, diagnostic>>

(* variant: the failure is noted but evaluation goes on *)
StepTryErrGoesOn ==
  /\ pc = "scope"
  /\ LET s == generated_code.stmts[idx]
     IN /\ s.k = "try" /\ s.r.tag = "Err"
        /\ scope_result' = Err(anyhow_from(s.r.e))
  /\ effects' = Append(effects, idx)
  /\ idx' = idx + 1
  /\ UNCHANGED <<form, args, item, out_fn, tokens, directive, generated_code,
                 macro_panicked, pc, value, diagnostic>>

(* `let _ = op()?;` whose operation fails: `?` returns from the closure *)
StepTryErr ==
  /\ pc = "scope"
  /\ LET s == generated_code.stmts[idx]
     IN /\ s.k = "try" /\ s.r.tag = "Err"
        /\ scope_result' = Err(anyhow_from(s.r.e))
  /\ effects' = Append(effects, idx)
  /\ pc' = "scope_done"
  /\ UNCHANGED <<form, args, item, out_fn, tokens, directive, generated_code,
                 macro_panicked, idx, value, diagnostic>>

(* `return r;` or the trailing expression: the closure returns r *)
StepRet ==
  /\ pc = "scope"
  /\ LET s == generated_code.stmts[idx]
     IN /\ s.k = "ret"
        /\ scope_result' = IF s.r.tag = "Ok" THEN s.r
                           ELSE Err(anyhow_from(s.r.e))
  /\ effects' = Append(effects, idx)
  /\ pc' = "scope_done"
  /\ UNCHANGED <<form, args, item, out_fn, tokens, directive, generated_code,
                 macro_panicked, idx, value, diagnostic>>

(* .unwrap_or_else(|e| panic!(..)) on the closure's result *)
Unwrap ==
  /\ pc = "scope_done"
  /\ LET out == unwrap_or_else(scope_result, generated_code.context)
     IN /\ value' = IF out.tag = "value" THEN Some(out.v) ELSE value
        /\ diagnostic' = out.msg
        /\ pc' = IF out.tag = "value" THEN "returned" ELSE "panicked"
  /\ UNCHANGED <<form, args, item, out_fn, tokens, directive, generated_code,
                 macro_panicked, idx, effects, scope_result>>

(* the code after the invocation site runs with the value *)
Continue ==
  /\ pc = "returned"
  /\ pc' = "continued"
  /\ UNCHANGED <<form, args, item, out_fn, tokens, directive, generated_code,
                 macro_panicked, idx, effects, scope_result, value, diagnostic>>

Next ==
  \/ ExpandFatalFn
  \/ ExpandFatal
  \/ Call
  \/ StepTryOk
  \/ StepTryErr
  \/ StepRet
  \/ Unwrap
  \/ Continue

Spec == Init /\ [][Next]_vars

(* ============================ properties ============================== *)
Contains(parts, text) == \E i \in DOMAIN parts : parts[i] = text

Max(S) == CHOOSE m \in S : \A n \in S : n <= m

(* the statements as written at the invocation site *)
SourceBody == IF form = "bare" THEN tokens.body ELSE item.fn.block

Expanded == pc \notin {"attr", "macro", "compile_error"}
Finished == pc \in {"returned", "continued", "panicked"}

(* positions of the reason annotations whose argument is one string literal *)
GoodAttrs(attrs) ==
  {i \in DOMAIN attrs : attrs[i].path = "reason" /\ attrs[i].arg.shape = "str"}

(* positions of the reason = "<string literal>" pairs *)
GoodArgs(as) ==
  {i \in DOMAIN as : as[i].kind = "NameValue" /\ as[i].path = "reason"
                       /\ as[i].lit.shape = "str"}

(* the sequence without its i-th element *)
Without(seq, i) == SubSeq(seq, 1, i - 1) \o SubSeq(seq, i + 1, Len(seq))

IsReason(attr) == attr.path = "reason"

(* C1: in the bare form, when the statements evaluate to success with      *)
(* value v, the generated expression yields exactly v, with or without a   *)
(* reason; it never panics and produces no diagnostic.                     *)
C1_SuccessIdentity ==
  (form = "bare" /\ tokens.ok /\ closure(tokens.body).tag = "Ok") =>
    /\ pc # "panicked"
    /\ diagnostic = <<>>
    /\ ~macro_panicked
    /\ pc \in {"returned", "continued"} => value = Some(closure(tokens.body).v)
    /\ pc \notin {"returned", "continued"} => value = None

C1_Witness ==
  /\ form = "bare"
  /\ pc = "returned"
  /\ Len(tokens.body) = 2
  /\ tokens.body[1].k = "try"
  /\ directive.reason_message.tag = "Some"
  /\ value = Some(42)

(* C2: when the statements evaluate to failure with error e, the generated *)
(* expression never yields a value: it ends in a panic whose diagnostic    *)
(* contains e's rendered message, and the code after the site never runs.  *)
C2_FailureIsFatal ==
  (Expanded /\ closure(SourceBody).tag = "Err") =>
    /\ value = None
    /\ pc \notin {"returned", "continued"}
    /\ Finished =>
         /\ pc = "panicked"
         /\ Contains(diagnostic, Display(closure(SourceBody).e.root))

C2_Witness ==
  /\ pc = "panicked"
  /\ Len(SourceBody) = 2
  /\ SourceBody[1] = [k |-> "try", r |-> Err("OtherFailure")]
  /\ Contains(diagnostic, "Other failure")
  /\ value = None

(* C3: a panic's diagnostic contains the Directive's reason text when it   *)
(* has one and the generic text when it has none; the diagnostic of the    *)
(* same Directive with the reason added or removed differs in the context  *)
(* part only.                                                              *)
C3_DiagnosticContext ==
  pc = "panicked" =>
    LET reason == directive.reason_message
        others == IF reason.tag = "Some" THEN {None}
                  ELSE {Some(LitA), Some(LitRawB)}
    IN /\ reason.tag = "Some" => Contains(diagnostic, reason.val.text)
       /\ reason.tag = "None" =>
            Contains(diagnostic, "An unrecoverable error occurred")
       /\ \A other \in others :
            LET d == unwrap_or_else(scope_result,
                                    generate(directive.stmts, other).context).msg
                c == IF other.tag = "Some" THEN other.val.text
                     ELSE "An unrecoverable error occurred"
            IN /\ Len(d) = Len(diagnostic)
               /\ Contains(d, c)
               /\ \E k \in DOMAIN d :
                    /\ d[k] = c
                    /\ \A i \in DOMAIN d : i # k => d[i] = diagnostic[i]

C3_Witness ==
  /\ pc = "panicked"
  /\ form = "bare"
  /\ directive.reason_message = Some(LitRawB)
  /\ Contains(diagnostic, "B")
  /\ ~Contains(diagnostic, "An unrecoverable error occurred")

(* C4: in the bare form, the Directive's reason is the argument of the     *)
(* last reason annotation whose argument is one string literal; a later    *)
(* reason annotation with another argument shape leaves it in place.       *)
C4_BareLastReasonWins ==
  (form = "bare" /\ Expanded) =>
    LET good == GoodAttrs(tokens.attrs)
    IN /\ good = {} => directive.reason_message = None
       /\ good # {} =>
            /\ directive.reason_message = Some(tokens.attrs[Max(good)].arg)
            /\ generated_code.context = tokens.attrs[Max(good)].arg

C4_Witness ==
  /\ form = "bare"
  /\ pc = "compiled"
  /\ tokens.attrs = <<Attr("reason", LitA), Attr("reason", LitRawB)>>
  /\ directive.reason_message = Some(LitRawB)

(* C5: a function given to fatal_fn whose arguments hold reason = "R" (and *)
(* no reason pair with another text) behaves at run time as the bare form  *)
(* fatal! { #![reason("R")] B } on its body B, and one whose arguments     *)
(* hold no reason pair as fatal! { B }: the same value on success, the     *)
(* same diagnostic and panic on failure.                                   *)
C5_FnEqualsBare ==
  (form = "fn" /\ Expanded) =>
    LET texts == {args[i].lit.text : i \in GoodArgs(args)}
    IN Cardinality(texts) <= 1 =>
         LET bare == Tokens(IF texts = {} THEN <<>>
                            ELSE <<Attr("reason",
                                        Lit("str", FALSE, CHOOSE t \in texts : TRUE))>>,
                            item.fn.block, TRUE)
             expr == fatal(bare)
             outcome == unwrap_or_else(closure(expr.stmts), expr.context)
         IN /\ generated_code.stmts = expr.stmts
            /\ LitStr_value(generated_code.context) = LitStr_value(expr.context)
            /\ pc \in {"returned", "continued"} =>
                 outcome.tag = "value" /\ value = Some(outcome.v)
            /\ pc = "panicked" =>
                 outcome.tag = "panic" /\ diagnostic = outcome.msg
            /\ Finished => (pc = "panicked" <=> outcome.tag = "panic")

C5_Witness ==
  /\ form = "fn"
  /\ pc = "panicked"
  /\ args = <<NameValue("note", LitA), NameValue("reason", LitRawB)>>
  /\ Contains(diagnostic, "B")

(* C6: a reason annotation whose argument is no string literal is no       *)
(* error and gives no reason (the Directive is the one of the input        *)
(* without that annotation); a syntax error in the statements gives a      *)
(* syntax error and no Directive; the transformer never panics.            *)
C6_MalformedInput ==
  /\ ~macro_panicked
  /\ (form = "bare" /\ pc # "macro") =>
       /\ ~tokens.ok =>
            /\ pc = "compile_error"
            /\ directive = NoDirective
            /\ generated_code.tag = "compile_error"
       /\ tokens.ok =>
            /\ pc # "compile_error"
            /\ generated_code.tag = "Expr"
            /\ \A i \in DOMAIN tokens.attrs :
                 (IsReason(tokens.attrs[i]) /\ tokens.attrs[i].arg.shape # "str") =>
                   /\ directive.reason_message # Some(tokens.attrs[i].arg)
                   /\ directive.reason_message
                        = scan_attribs(Without(tokens.attrs, i), None)
  /\ (form = "fn" /\ pc # "attr") =>
       /\ ~item.ok => pc = "compile_error" /\ out_fn = NoFn
       /\ item.ok => pc # "compile_error"

C6_Witness ==
  /\ form = "bare"
  /\ pc = "compiled"
  /\ tokens.attrs = <<Attr("reason", LitA), Attr("reason", Lit42)>>
  /\ directive.reason_message = Some(LitA)

(* C7: in the function form, the diagnostic's reason is the value of the   *)
(* last reason = "<string literal>" pair of the argument list.             *)
C7_FnLastReasonWins ==
  (form = "fn" /\ pc = "panicked" /\ GoodArgs(args) # {}) =>
    /\ Contains(diagnostic, args[Max(GoodArgs(args))].lit.text)
    /\ \A i \in GoodArgs(args) :
         args[i].lit.text # args[Max(GoodArgs(args))].lit.text =>
           ~Contains(diagnostic, args[i].lit.text)

(* C8: fatal_fn leaves the function's visibility, attributes, name,        *)
(* parameters and return type as they were; the body becomes a block of    *)
(* one fatal! invocation over the original statements.                     *)
C8_FnFrame ==
  (form = "fn" /\ item.ok /\ pc # "attr") =>
    /\ out_fn.vis = item.fn.vis
    /\ out_fn.attrs = item.fn.attrs
    /\ out_fn.ident = item.fn.ident
    /\ out_fn.inputs = item.fn.inputs
    /\ out_fn.output = item.fn.output
    /\ Len(out_fn.block) = 1
    /\ out_fn.block[1].k = "macro"
    /\ out_fn.block[1].path = "impass::fatal"
    /\ out_fn.block[1].tokens.body = item.fn.block

C8_Witness ==
  /\ form = "fn"
  /\ pc = "macro"
  /\ item.fn.ident = "example_function"
  /\ out_fn.output = "i32"
  /\ out_fn.inputs = <<"value: i32">>
  /\ out_fn.block # item.fn.block

(* the first statement that leaves the closure *)
FirstExit(stmts) ==
  CHOOSE i \in DOMAIN stmts :
    /\ stmts[i].k = "ret" \/ stmts[i].r.tag = "Err"
    /\ \A j \in 1..(i - 1) : stmts[j].k = "try" /\ stmts[j].r.tag = "Ok"

(* C9: the statements are evaluated in their order; at the first one that  *)
(* yields a failure f nothing later is evaluated and f is the scope's      *)
(* result; the failure is never returned to the caller as a value: the     *)
(* run goes to the panic.                                                  *)
C9_ShortCircuit ==
  (pc \in {"scope", "scope_done"} \/ Finished) =>
    LET k == FirstExit(SourceBody)
    IN /\ generated_code.stmts = SourceBody
       /\ \A i \in DOMAIN effects : effects[i] = i
       /\ Len(effects) <= k
       /\ pc = "scope" => Len(effects) = idx - 1
       /\ (pc # "scope" /\ SourceBody[k].r.tag = "Err") =>
            /\ Len(effects) = k
            /\ scope_result = Err(anyhow_from(SourceBody[k].r.e))
            /\ pc \in {"scope_done", "panicked"}
            /\ value = None

C9_Witness ==
  /\ pc = "panicked"
  /\ Len(SourceBody) = 2
  /\ SourceBody[1].k = "try"
  /\ SourceBody[1].r.tag = "Err"
  /\ effects = <<1>>

(* C10: inner annotations with another name than reason are dropped: the   *)
(* Directive and the generated expression are those of the input without   *)
(* them, and the statements are the input's statements.                    *)
C10_OtherAnnotationsDropped ==
  (form = "bare" /\ pc # "macro") =>
    LET stripped == Tokens(SelectSeq(tokens.attrs, IsReason), tokens.body, tokens.ok)
    IN /\ generated_code = fatal(stripped)
       /\ tokens.ok =>
            /\ directive = parse(stripped).v
            /\ directive.stmts = tokens.body
            /\ generated_code.stmts = tokens.body

C10_Witness ==
  /\ form = "bare"
  /\ pc = "compiled"
  /\ tokens.attrs = <<Attr("reason", LitRawB), Attr("allow", LitA)>>
  /\ directive.reason_message = Some(LitRawB)

====
